---- MODULE Spec2Model ----
(***************************************************************************)
(* Model of app.py, the stock price forecasting dashboard.                 *)
(*                                                                         *)
(* The script is re-executed top to bottom by the dashboard runtime on     *)
(* every user interaction.  One session is modelled: the parquet file on   *)
(* disk, the st.cache_data cache of load_data, the two widgets' session    *)
(* state, and the namespace of the script run in progress.  Every          *)
(* statement group of the script is one action; a library call that can    *)
(* raise ends the run in pc = "failed" (nothing is caught in app.py).      *)
(*                                                                         *)
(* Numbers: prices and predictions are integers in mills (1/1000 of the    *)
(* currency unit), dates are day numbers, means are exact fractions        *)
(* [num, den].  NaN is a value of its own.                                 *)
(***************************************************************************)
EXTENDS Integers, Sequences, FiniteSets, TLC

\* ------------------------------------------------------------ bounds
\* Largest number of rows a company has in a modelled data file.
MaxRows == 201
\* Row count of a company far below the selection threshold.
SmallRows == 50

\* ------------------------------------------------- program constants
\* company_counts >= 180
MinRows == 180
\* X_test.iloc[-15:, :] and range(1, 16)
ForecastDays == 15
\* pd.date_range(..., periods=16, freq='D')
DateRangePeriods == 16
\* seasonal_decompose(..., period=30, ...)
Period == 30
\* rolling(window=50)
Window50 == 50
\* rolling(window=200)
Window200 == 200

\* A missing value (numpy.nan) of a numeric column; prices are positive.
NaN == 0 - 1
\* A missing mean (numpy.nan in a rolling mean).
NaNMean == [num |-> 0, den |-> 0]
\* Python's None, and an unbound name of the script's namespace.
None == "None"
Unbound == "Unbound"
\* A value a library computes that the script only passes on to a chart.
Opaque == "Opaque"

\* features = [...] and target = "close"
\* Variant: the list without its last column.
featuresShort == <<"open", "high", "low", "volume", "EMA_10", "MACD", "ATR_14">>
features == <<"open", "high", "low", "volume", "EMA_10", "MACD", "ATR_14", "Williams_%R">>
target == "close"
\* Every column of a complete data file.
AllColumns == {"name", "open", "high", "low", "close", "volume",
               "EMA_10", "MACD", "ATR_14", "Williams_%R"}

\* ------------------------------------------------------ sequence helpers
Range(s) == {s[i] : i \in DOMAIN s}

Max(a, b) == IF a >= b THEN a ELSE b
Min(a, b) == IF a <= b THEN a ELSE b
Abs(a) == IF a >= 0 THEN a ELSE 0 - a

\* The sum of s[lo..hi], by halves.
RECURSIVE SumRange(_, _, _)
SumRange(s, lo, hi) ==
    IF lo > hi THEN 0
    ELSE IF lo = hi THEN s[lo]
    ELSE LET mid == (lo + hi) \div 2
         IN  SumRange(s, lo, mid) + SumRange(s, mid + 1, hi)

SumSeq(s) == SumRange(s, 1, Len(s))

RECURSIVE Flatten(_)
Flatten(ss) == IF ss = <<>> THEN <<>> ELSE Head(ss) \o Flatten(Tail(ss))

\* s[-k:] of Python: the last k elements, all of them when there are fewer
\* (and, -0 being 0, all of them when k = 0).
LastK(s, k) == IF k = 0 THEN s ELSE SubSeq(s, Max(1, Len(s) - k + 1), Len(s))

\* ------------------------------------------------------------ data file
\* The contents of data.parquet are an input of the program.  A file is
\* described by its companies' row counts, the columns it holds and the
\* place of at most one NaN close; its rows are generated from that.
Companies == {"AAA", "BBB", "CCC"}

Off(c) == CASE c = "AAA" -> 3 [] c = "BBB" -> 17 [] OTHER -> 29

OpenOf(c, i) == 1000 + ((i * 5 + Off(c)) % 47)
CloseOf(c, i) == 1000 + ((i * 7 + Off(c)) % 53)

CellOf(col, c, i) ==
    CASE col = "name" -> c
      [] col = "open" -> OpenOf(c, i)
      [] col = "close" -> CloseOf(c, i)
      [] col = "high" -> Max(OpenOf(c, i), CloseOf(c, i)) + (i % 4)
      [] col = "low" -> Min(OpenOf(c, i), CloseOf(c, i)) - (i % 3)
      [] col = "volume" -> 100 + i
      [] col = "EMA_10" -> 1000 + ((i * 3 + Off(c)) % 41)
      [] col = "MACD" -> (i % 11) - 5
      [] col = "ATR_14" -> 1 + (i % 7)
      [] OTHER -> 0 - (i % 100)

\* One row: its index label (the day) and its cells by column.
RowOf(f, c, i) ==
    [idx |-> i,
     v |-> [col \in f.columns |->
               IF col = "close" /\ f.nan = <<c, i>> THEN NaN ELSE CellOf(col, c, i)]]

\* A company's rows as the file holds them: newest day first, so that
\* sort_index has something to do.
BlockOf(f, k) ==
    LET c == f.sizes[k][1]
        n == f.sizes[k][2]
    IN  [j \in 1..n |-> RowOf(f, c, n + 1 - j)]

\* pd.read_parquet("data.parquet"): a frame is its column labels and its rows.
read_parquet(f) ==
    [columns |-> f.columns,
     rows |-> Flatten([k \in DOMAIN f.sizes |-> BlockOf(f, k)])]

NoNaN == <<None, 0>>

SizeTable ==
    { << <<"AAA", MinRows>>, <<"BBB", Window200>>, <<"CCC", MinRows - 1>> >>,
      << <<"AAA", Window200 - 1>>, <<"BBB", MaxRows>>, <<"CCC", SmallRows>> >>,
      << <<"AAA", MinRows>>, <<"BBB", MinRows>>, <<"CCC", 1>> >>,
      << <<"AAA", MinRows + 1>>, <<"BBB", MinRows + 5>> >>,
      << <<"AAA", MinRows - 1>>, <<"BBB", SmallRows>> >>,
      << <<"AAA", 1>> >>,
      << >> }

CompleteFiles == {[sizes |-> s, columns |-> AllColumns, nan |-> NoNaN] : s \in SizeTable}

\* Files that lack one column.
IncompleteFiles ==
    {[sizes |-> << <<"AAA", MinRows>>, <<"BBB", Window200>> >>,
      columns |-> AllColumns \ {col}, nan |-> NoNaN] : col \in AllColumns}

\* Files with one NaN close: in the training part, and in the test part.
NaNFiles ==
    {[sizes |-> << <<"AAA", MinRows>>, <<"BBB", Window200>> >>,
      columns |-> AllColumns, nan |-> p] : p \in {<<"AAA", 10>>, <<"BBB", Window200 - 5>>}}

Files == CompleteFiles \cup IncompleteFiles \cup NaNFiles

\* The orders the build's sort may leave companies of equal count in; it
\* is the same in every run of a session.
TieOrders(f) ==
    IF \E i, j \in DOMAIN f.sizes : i # j /\ f.sizes[i][2] = f.sizes[j][2]
    THEN {<<"AAA", "BBB", "CCC">>, <<"BBB", "AAA", "CCC">>}
    ELSE {<<"AAA", "BBB", "CCC">>}

\* ------------------------------------------------------------ frames
\* df[col] as a sequence of values, in row order.
Column(df, col) == [i \in 1..Len(df.rows) |-> df.rows[i].v[col]]

\* df.index as a sequence of labels, in row order.
Index(df) == [i \in 1..Len(df.rows) |-> df.rows[i].idx]

\* df[df['name'].isin(names)], and df[df['name'] == c] with names = {c}:
\* the rows whose name is among names, in their order, under the same columns.
NameIn(df, names) ==
    [columns |-> df.columns,
     rows |-> SelectSeq(df.rows, LAMBDA r : r.v["name"] \in names)]

\* df[cols]: the rows cut down to the listed columns.
Project(df, cols) ==
    [columns |-> cols,
     rows |-> [i \in 1..Len(df.rows) |->
                 [idx |-> df.rows[i].idx, v |-> [c \in cols |-> df.rows[i].v[c]]]]]

\* df.sort_index(): ascending by index label.
sort_index(df) ==
    [columns |-> df.columns, rows |-> SortSeq(df.rows, LAMBDA a, b : a.idx < b.idx)]

\* Series.value_counts(): how often each value occurs.
value_counts(s) == [c \in Range(s) |-> Cardinality({i \in DOMAIN s : s[i] = c})]

\* company_counts >= 180
\* Variant: the threshold a digit short.
IsValidCountLow(n) == n >= MinRows \div 10
\* The threshold of the filter itself.
IsValidCount(n) == n >= MinRows

Rank(order, c) == CHOOSE i \in DOMAIN order : order[i] = c

\* company_counts[...].index.tolist(): value_counts lists the largest
\* count first; the order of equal counts is the sort's, here ties.
Listing(counts, keep, ties) ==
    CHOOSE s \in [1..Cardinality(keep) -> keep] :
        /\ Range(s) = keep
        /\ \A i, j \in DOMAIN s : i < j =>
              \/ counts[s[i]] > counts[s[j]]
              \/ counts[s[i]] = counts[s[j]] /\ Rank(ties, s[i]) < Rank(ties, s[j])

\* ------------------------------------------------------------ the script
ScriptOrder ==
    <<"load", "filter", "title", "select_company", "prepare", "split",
      "select_model", "fit", "score", "display_metrics", "forecast",
      "display_forecast", "candlestick", "forecast_plot", "seasonal_plot",
      "metrics_chart", "moving_average">>

Position(step) == CHOOSE i \in DOMAIN ScriptOrder : ScriptOrder[i] = step

\* The statement group that runs after step when step raises nothing.
\* Variant: the forecast chart drawn before the candlestick chart.
StepAfterSwapped(step) ==
    CASE step = "display_forecast" -> "forecast_plot"
      [] step = "forecast_plot" -> "candlestick"
      [] step = "candlestick" -> "seasonal_plot"
      [] step = "moving_average" -> "done"
      [] OTHER -> ScriptOrder[Position(step) + 1]
\* The script's order: the next statement group in the source.
StepAfter(step) ==
    IF Position(step) = Len(ScriptOrder) THEN "done"
    ELSE ScriptOrder[Position(step) + 1]

NoFraction == [num |-> 0, den |-> 0]
UnboundModel == [kind |-> Unbound, random_state |-> 0, fitted |-> FALSE,
                 seed |-> 0, lo |-> 0, hi |-> 0]
EmptyFrame == [columns |-> {}, rows |-> <<>>]

\* The namespace a run of the script starts with: nothing is bound.
FreshNamespace ==
    [data |-> EmptyFrame, company_counts |-> <<>>, valid_companies |-> <<>>,
     selected_company |-> Unbound, company_data |-> EmptyFrame,
     X |-> EmptyFrame, y |-> <<>>,
     X_train |-> EmptyFrame, X_test |-> EmptyFrame, y_train |-> <<>>, y_test |-> <<>>,
     model_choice |-> Unbound, model |-> UnboundModel,
     y_pred |-> <<>>, mae |-> NoFraction, mse |-> NoFraction, rmse |-> 0,
     r2 |-> NoFraction, accuracy |-> NoFraction,
     future_X |-> EmptyFrame, future_forecast |-> <<>>, forecast_df |-> <<>>,
     decompose_result |-> [trend |-> <<>>, seasonal |-> <<>>]]

NoError == [step |-> None, type |-> None]

VARIABLES
    file,            \* data.parquet, as described in Files
    tie_order,       \* the order the build's sort leaves equal counts in
    cache,           \* st.cache_data's entry for load_data(): a frame, or none yet
    cached,          \* whether the entry exists
    widget_company,  \* the selectbox's session value (None: never touched)
    widget_model,    \* the radio's session value (None: never touched)
    pc,              \* the statement group the run is at, "done" or "failed"
    ns,              \* the script's namespace in this run
    rendered,        \* the elements this run has put on the page, in order
    error,           \* the exception that ended this run
    steps,           \* history: the statement groups this run has executed
    constructed,     \* history: the regressors this run has constructed
    seen             \* history: the outputs of the first finished run per selection

session == <<file, tie_order, cache, cached, widget_company, widget_model>>
vars == <<file, tie_order, cache, cached, widget_company, widget_model, pc, ns, rendered,
          error, steps, constructed, seen>>

Init ==
    /\ file \in Files
    /\ tie_order \in TieOrders(file)
    /\ cache = EmptyFrame
    /\ cached = FALSE
    /\ widget_company = None
    /\ widget_model = None
    /\ pc = "load"
    /\ ns = FreshNamespace
    /\ rendered = <<>>
    /\ error = NoError
    /\ steps = <<>>
    /\ constructed = <<>>
    /\ seen = <<>>

\* An exception nothing catches: the run ends where it is.
Raise(step, type) ==
    /\ pc' = "failed"
    /\ error' = [step |-> step, type |-> type]
    /\ steps' = Append(steps, step)
    /\ UNCHANGED <<ns, rendered, constructed>>

\* The statement group ran through.
Proceed(step) ==
    /\ pc' = StepAfter(step)
    /\ steps' = Append(steps, step)
    /\ UNCHANGED error

\* data = load_data(), under @st.cache_data: the file is read on the first
\* call of the session, later calls return a copy of the cached frame.
Load ==
    /\ pc = "load"
    /\ IF cached
       THEN /\ ns' = [ns EXCEPT !.data = cache]
            /\ UNCHANGED <<cache, cached>>
       ELSE /\ ns' = [ns EXCEPT !.data = read_parquet(file)]
            /\ cache' = read_parquet(file)
            /\ cached' = TRUE
    /\ Proceed("load")
    /\ UNCHANGED <<file, tie_order, widget_company, widget_model, rendered, constructed, seen>>

\* company_counts, valid_companies and the isin filter.
Filter ==
    /\ pc = "filter"
    /\ UNCHANGED <<session, seen>>
    /\ IF "name" \notin ns.data.columns
       THEN Raise("filter", "KeyError")
       ELSE LET counts == value_counts(Column(ns.data, "name"))
                keep == {c \in DOMAIN counts : IsValidCount(counts[c])}
            IN  /\ ns' = [ns EXCEPT
                         !.company_counts = counts,
                         !.valid_companies = Listing(counts, keep, tie_order),
                         !.data = NameIn(ns.data, keep)]
                /\ Proceed("filter")
                /\ UNCHANGED <<rendered, constructed>>

\* st.title(...)
Title ==
    /\ pc = "title"
    /\ rendered' = Append(rendered, [kind |-> "title"])
    /\ Proceed("title")
    /\ UNCHANGED <<session, seen, ns, constructed>>

\* st.selectbox(label, options): the session value, by default the first
\* option, None when there is no option.
selectbox(options) ==
    IF widget_company # None THEN widget_company
    ELSE IF options = <<>> THEN None
    ELSE options[1]

\* selected_company and company_data.
SelectCompany ==
    /\ pc = "select_company"
    /\ LET choice == selectbox(ns.valid_companies)
       IN  /\ ns' = [ns EXCEPT
                       !.selected_company = choice,
                       !.company_data =
                           sort_index(NameIn(ns.data, {choice}))]
           /\ rendered' = Append(rendered,
                  [kind |-> "selectbox", options |-> ns.valid_companies, value |-> choice])
    /\ Proceed("select_company")
    /\ UNCHANGED <<session, seen, constructed>>

\* X = company_data[features]; y = company_data[target]
Prepare ==
    /\ pc = "prepare"
    /\ UNCHANGED <<session, seen>>
    /\ IF ~(Range(features) \subseteq ns.company_data.columns)
          \/ target \notin ns.company_data.columns
       THEN Raise("prepare", "KeyError")
       ELSE /\ ns' = [ns EXCEPT
                        !.X = Project(ns.company_data, Range(features)),
                        !.y = Column(ns.company_data, target)]
            /\ Proceed("prepare")
            /\ UNCHANGED <<rendered, constructed>>

\* train_test_split(test_size=0.2): n_test = ceil(test_size * n) in double
\* arithmetic, n_train = n - n_test.  The double 0.2 is 0.2 * (1 + 2^-54),
\* so for n a multiple of 5 the product rounds to n / 5 exactly, and
\* otherwise its fraction is at least 0.2: the ceiling is that of the
\* exact 2n / 10 for every n a frame can hold.
\* Variant: the floor instead of the ceiling.
n_test_floor(n) == (2 * n) \div 10
\* The ceiling, as train_test_split takes it.
n_test_of(n) == (2 * n + 9) \div 10
n_train_of(n) == n - n_test_of(n)

\* train_test_split(X, y, test_size=0.2, shuffle=False)
Split ==
    /\ pc = "split"
    /\ UNCHANGED <<session, seen>>
    /\ LET n == Len(ns.y)
           n_train == n_train_of(n)
       IN  IF n_train = 0
           THEN Raise("split", "ValueError")
           ELSE /\ ns' = [ns EXCEPT
                     !.X_train = [columns |-> ns.X.columns, rows |-> SubSeq(ns.X.rows, 1, n_train)],
                     !.X_test = [columns |-> ns.X.columns, rows |-> SubSeq(ns.X.rows, n_train + 1, n)],
                     !.y_train = SubSeq(ns.y, 1, n_train),
                     !.y_test = SubSeq(ns.y, n_train + 1, n)]
                /\ Proceed("split")
                /\ UNCHANGED <<rendered, constructed>>

\* ------------------------------------------------------------ numbers
\* num / den rounded to the nearest integer, a tie to the even one
\* (numpy.round and Python's format round this way); den > 0.
RoundHalfEven(num, den) ==
    LET q == num \div den
        r == num - q * den
    IN  IF 2 * r < den THEN q
        ELSE IF 2 * r > den THEN q + 1
        ELSE IF q % 2 = 0 THEN q ELSE q + 1

\* np.round(p, 2) of a value in mills: a whole number of hundredths.
Round2(p) == 10 * RoundHalfEven(p, 10)

\* f"{x:.2f}" of a fraction of mills: the hundredths the text shows.
FormatF2(x) == RoundHalfEven(x.num, x.den * 10)

\* f"{x:.2f}" of the square root of a fraction of squared mills.
FormatSqrtF2(x) ==
    CHOOSE h \in 0..1000 :
        /\ (2 * h - 1) * (2 * h - 1) * 25 * x.den <= x.num \/ h = 0
        /\ x.num < (2 * h + 1) * (2 * h + 1) * 25 * x.den

\* f"{x:.2f}" and f"{x:.2%}" of a plain ratio: hundredths, and hundredths of a percent.
FormatRatioF2(x) == RoundHalfEven(100 * x.num, x.den)
FormatRatioPct2(x) == RoundHalfEven(10000 * x.num, x.den)

SeqMin(s) == CHOOSE m \in Range(s) : \A x \in Range(s) : m <= x
SeqMax(s) == CHOOSE m \in Range(s) : \A x \in Range(s) : m >= x

\* ------------------------------------------------------------ regressors
\* sklearn's tree ensembles are not part of the repository.  What the
\* script relies on is modelled: the estimator is what the constructor
\* made it, fit rejects NaN targets, a fitted ensemble predicts each row
\* from that row's features alone, inside the range of the training
\* targets, and with an integer random_state the fit is reproducible.
ModelOptions == <<"Extra Trees", "Random Forest">>

ExtraTreesRegressor(n_estimators, random_state) ==
    [kind |-> "ExtraTreesRegressor", random_state |-> random_state, fitted |-> FALSE,
     seed |-> 0, lo |-> 0, hi |-> 0]

RandomForestRegressor(n_estimators, random_state) ==
    [kind |-> "RandomForestRegressor", random_state |-> random_state, fitted |-> FALSE,
     seed |-> 0, lo |-> 0, hi |-> 0]

\* The if / elif of the model selection: the estimator bound to model, or
\* the name left as it was when neither branch is taken.
\* Variant: the elif compares with a misspelt option.
ModelForTypo(choice, current) ==
    IF choice = "Extra Trees" THEN ExtraTreesRegressor(100, 42)
    ELSE IF choice = "RandomForest" THEN RandomForestRegressor(100, 42)
    ELSE current
\* The if / elif as written.
ModelFor(choice, current) ==
    IF choice = "Extra Trees" THEN ExtraTreesRegressor(100, 42)
    ELSE IF choice = "Random Forest" THEN RandomForestRegressor(100, 42)
    ELSE current

\* The seeds a fit may draw its randomness from: random_state itself when
\* it is an integer.
\* Variant: an unseeded estimator, whose fits differ from run to run.
SeedsUnseeded(random_state) == {random_state, random_state + 1}
\* random_state=42: one seed.
Seeds(random_state) == {random_state}

fit(m, seed, y_train) ==
    [m EXCEPT !.fitted = TRUE, !.seed = seed,
              !.lo = SeqMin(y_train), !.hi = SeqMax(y_train)]

PredictRow(m, v) ==
    LET centre == IF m.kind = "ExtraTreesRegressor"
                  THEN (v["open"] + v["high"] + v["low"]) \div 3
                  ELSE (v["high"] + v["low"]) \div 2
    IN  Max(m.lo, Min(m.hi, centre + (m.seed % 5)))

\* model.predict(X): one prediction per row, in row order.
predict(m, rows) == [i \in 1..Len(rows) |-> PredictRow(m, rows[i].v)]

\* ------------------------------------------------------------ metrics
\* mean_absolute_error, mean_squared_error as exact fractions.
mean_absolute_error(yt, yp) ==
    [num |-> SumSeq([i \in DOMAIN yt |-> Abs(yt[i] - yp[i])]), den |-> Len(yt)]

mean_squared_error(yt, yp) ==
    [num |-> SumSeq([i \in DOMAIN yt |-> (yt[i] - yp[i]) * (yt[i] - yp[i])]),
     den |-> Len(yt)]

\* r2_score = 1 - ss_res / ss_tot, both scaled by n; 1 or 0 for a constant y.
r2_score(yt, yp) ==
    LET n == Len(yt)
        d == [i \in DOMAIN yt |-> yt[i] - yt[1]]
        tot == n * SumSeq([i \in DOMAIN d |-> d[i] * d[i]]) - SumSeq(d) * SumSeq(d)
        res == n * mean_squared_error(yt, yp).num
    IN  IF tot = 0 THEN [num |-> IF res = 0 THEN 1 ELSE 0, den |-> 1]
        ELSE [num |-> tot - res, den |-> tot]

\* 1 - (mae / np.mean(y_test))
accuracy_of(mae, yt) == [num |-> SumSeq(yt) - mae.num, den |-> SumSeq(yt)]

\* ------------------------------------------------------------ the script, continued
\* st.radio(label, options): the session value, by default the first option.
radio(options) == IF widget_model # None THEN widget_model ELSE options[1]

\* model_choice and the if / elif that constructs the model.
SelectModel ==
    /\ pc = "select_model"
    /\ LET choice == radio(ModelOptions)
           m == ModelFor(choice, ns.model)
       IN  /\ ns' = [ns EXCEPT !.model_choice = choice, !.model = m]
           /\ rendered' = Append(rendered,
                  [kind |-> "radio", options |-> ModelOptions, value |-> choice])
           /\ constructed' = IF m = ns.model THEN constructed
                             ELSE Append(constructed, m.kind)
    /\ Proceed("select_model")
    /\ UNCHANGED <<session, seen>>

\* model.fit(X_train, y_train)
Fit ==
    /\ pc = "fit"
    /\ UNCHANGED <<session, seen>>
    /\ IF ns.model.kind = Unbound
       THEN Raise("fit", "NameError")
       ELSE IF NaN \in Range(ns.y_train)
       THEN Raise("fit", "ValueError")
       ELSE /\ \E seed \in Seeds(ns.model.random_state) :
                 ns' = [ns EXCEPT !.model = fit(ns.model, seed, ns.y_train)]
            /\ Proceed("fit")
            /\ UNCHANGED <<rendered, constructed>>

\* y_pred and the five metrics.
Score ==
    /\ pc = "score"
    /\ UNCHANGED <<session, seen>>
    /\ IF NaN \in Range(ns.y_test)
       THEN Raise("score", "ValueError")
       ELSE LET yp == predict(ns.model, ns.X_test.rows)
                mae == mean_absolute_error(ns.y_test, yp)
                mse == mean_squared_error(ns.y_test, yp)
            IN  /\ ns' = [ns EXCEPT
                            !.y_pred = yp, !.mae = mae, !.mse = mse, !.rmse = mse,
                            !.r2 = r2_score(ns.y_test, yp),
                            !.accuracy = accuracy_of(mae, ns.y_test)]
                /\ Proceed("score")
                /\ UNCHANGED <<rendered, constructed>>

Subheader(text) == [kind |-> "subheader", body |-> text]
Metric(label, value) == [kind |-> "metric", label |-> label, value |-> value]

\* st.subheader("Model Performance") and the four st.metric calls; rmse
\* holds the fraction whose square root it is.
DisplayMetrics ==
    /\ pc = "display_metrics"
    /\ rendered' = rendered \o
         << Subheader("Model Performance"),
            Metric("Mean Absolute Error (MAE)", FormatF2(ns.mae)),
            Metric("Root Mean Squared Error (RMSE)", FormatSqrtF2(ns.rmse)),
            Metric("R2 Score", FormatRatioF2(ns.r2)),
            Metric("Estimated Accuracy", FormatRatioPct2(ns.accuracy)) >>
    /\ Proceed("display_metrics")
    /\ UNCHANGED <<session, seen, ns, constructed>>

\* X_test.iloc[-15:, :]
\* Variant: the first 15 rows, iloc[:15].
ForecastInputHead(rows) == SubSeq(rows, 1, Min(Len(rows), ForecastDays))
\* The last 15 rows, as written.
ForecastInput(rows) == LastK(rows, ForecastDays)

\* future_X, future_forecast
Forecast ==
    /\ pc = "forecast"
    /\ LET fx == ForecastInput(ns.X_test.rows)
           raw == predict(ns.model, fx)
       IN  ns' = [ns EXCEPT
                    !.future_X = [columns |-> ns.X_test.columns, rows |-> fx],
                    !.future_forecast = [k \in DOMAIN raw |-> Round2(raw[k])]]
    /\ Proceed("forecast")
    /\ UNCHANGED <<session, seen, rendered, constructed>>

\* forecast_df and its table: pd.DataFrame raises when the two columns
\* differ in length; the table shows each forecast as "{:.2f}".
DisplayForecast ==
    /\ pc = "display_forecast"
    /\ UNCHANGED <<session, seen>>
    /\ IF Len(ns.future_forecast) # ForecastDays
       THEN Raise("display_forecast", "ValueError")
       ELSE LET df == [k \in 1..ForecastDays |->
                          [Day |-> k, Forecasted_Close |-> ns.future_forecast[k]]]
            IN  /\ ns' = [ns EXCEPT !.forecast_df = df]
                /\ rendered' = rendered \o
                     << Subheader("15-Day Forecast"),
                        [kind |-> "dataframe",
                         rows |-> [k \in DOMAIN df |->
                                     [Day |-> df[k].Day,
                                      Forecasted_Close |->
                                          RoundHalfEven(df[k].Forecasted_Close, 10)]]] >>
                /\ Proceed("display_forecast")
                /\ UNCHANGED constructed

\* ------------------------------------------------------------ charts
\* go.Scatter(x=..., y=..., name=...): a trace is its name and its x and y
\* values; st.plotly_chart(fig) puts the figure's traces on the page.
Scatter(name, x, y) == [name |-> name, x |-> x, y |-> y]
Chart(fig, traces) == [kind |-> "plotly_chart", fig |-> fig, traces |-> traces]

\* Candlestick chart of the selected company.
Candlestick ==
    /\ pc = "candlestick"
    /\ rendered' = rendered \o
         << Subheader("Candlestick Chart"),
            Chart("candlestick_fig",
                  << [name |-> "Candlestick", x |-> Index(ns.company_data),
                      open |-> Column(ns.company_data, "open"),
                      high |-> Column(ns.company_data, "high"),
                      low |-> Column(ns.company_data, "low"),
                      close |-> Column(ns.company_data, "close")] >>) >>
    /\ Proceed("candlestick")
    /\ UNCHANGED <<session, seen, ns, constructed>>

\* pd.date_range(start, periods, freq='D'): consecutive days from start.
date_range(start, periods) == [i \in 1..periods |-> start + i - 1]

\* The three traces of forecast_fig.
ForecastTraces(index, y_test, y_pred, future_forecast) ==
    LET tail == LastK(index, Len(y_test))
    IN  << Scatter("Actual Close Price", tail, y_test),
           Scatter("Predicted Close Price", tail, y_pred),
           Scatter("Forecasted Close Price",
                   tail \o Tail(date_range(index[Len(index)], DateRangePeriods)),
                   LastK(y_pred, 1) \o future_forecast) >>

ForecastPlot ==
    /\ pc = "forecast_plot"
    /\ rendered' = rendered \o
         << Subheader("Forecasted Prices"),
            Chart("forecast_fig",
                  ForecastTraces(Index(ns.company_data), ns.y_test, ns.y_pred,
                                 ns.future_forecast)) >>
    /\ Proceed("forecast_plot")
    /\ UNCHANGED <<session, seen, ns, constructed>>

\* seasonal_decompose(x, period): statsmodels is not part of the
\* repository.  It refuses missing values and fewer than two periods of
\* observations; the components it returns are as long as x.
DecomposeRaises(x, period) == NaN \in Range(x) \/ Len(x) < 2 * period
seasonal_decompose(x, period) ==
    [trend |-> [i \in DOMAIN x |-> Opaque], seasonal |-> [i \in DOMAIN x |-> Opaque]]

SeasonalPlot ==
    /\ pc = "seasonal_plot"
    /\ UNCHANGED <<session, seen>>
    /\ LET x == Column(ns.company_data, target)
       IN  IF DecomposeRaises(x, Period)
           THEN Raise("seasonal_plot", "ValueError")
           ELSE LET res == seasonal_decompose(x, Period)
                IN  /\ ns' = [ns EXCEPT !.decompose_result = res]
                    /\ rendered' = rendered \o
                         << Subheader("Seasonal Trends"),
                            Chart("seasonal_fig",
                                  << Scatter("Trend", Index(ns.company_data), res.trend),
                                     Scatter("Seasonality", Index(ns.company_data),
                                             res.seasonal) >>) >>
                    /\ Proceed("seasonal_plot")
                    /\ UNCHANGED constructed

MetricsChart ==
    /\ pc = "metrics_chart"
    /\ rendered' = rendered \o
         << Subheader("Financial Metrics"),
            Chart("metrics_fig",
                  << Scatter("EMA 10", Index(ns.company_data), Column(ns.company_data, "EMA_10")),
                     Scatter("MACD", Index(ns.company_data), Column(ns.company_data, "MACD")),
                     Scatter("ATR 14", Index(ns.company_data),
                             Column(ns.company_data, "ATR_14")) >>) >>
    /\ Proceed("metrics_chart")
    /\ UNCHANGED <<session, seen, ns, constructed>>

\* Series.rolling(window).mean(), as pandas computes it: one pass that
\* adds the entering value to a running sum and count of observations and
\* removes the leaving one; a row has a mean when its window holds at
\* least min_periods observations, and min_periods defaults to window.
\* Variant: rolling(window, min_periods=1).
MinPeriodsOne(window) == 1
\* The default: min_periods = window.
MinPeriods(window) == window

\* The running sum and count after row i enters and row i - window leaves.
Slide(x, window, i, acc) ==
    LET enters == IF x[i] = NaN THEN [sum |-> 0, nobs |-> 0]
                  ELSE [sum |-> x[i], nobs |-> 1]
        leaves == IF i <= window \/ x[i - window] = NaN THEN [sum |-> 0, nobs |-> 0]
                  ELSE [sum |-> x[i - window], nobs |-> 1]
    IN  [sum |-> acc.sum + enters.sum - leaves.sum,
         nobs |-> acc.nobs + enters.nobs - leaves.nobs]

MeanOf(acc, window) ==
    IF acc.nobs >= MinPeriods(window) THEN [num |-> acc.sum, den |-> acc.nobs]
    ELSE NaNMean

\* The pass over rows Len(st.out) + 1 .. upto, from the running state st.
RECURSIVE RollTo(_, _, _, _)
RollTo(x, window, upto, st) ==
    IF Len(st.out) >= upto THEN st
    ELSE LET acc == Slide(x, window, Len(st.out) + 1, st.acc)
         IN  RollTo(x, window, upto, [acc |-> acc, out |-> Append(st.out, MeanOf(acc, window))])

\* The pass over all rows, taken a stretch of rows at a time.
RECURSIVE RollFrom(_, _, _)
RollFrom(x, window, st) ==
    IF Len(st.out) = Len(x) THEN st.out
    ELSE RollFrom(x, window, RollTo(x, window, Min(Len(x), Len(st.out) + 16), st))

rolling_mean(x, window) ==
    RollFrom(x, window, [acc |-> [sum |-> 0, nobs |-> 0], out |-> <<>>])

\* df[col] = values: the frame with the column added.
WithColumn(df, col, values) ==
    [columns |-> df.columns \cup {col},
     rows |-> [i \in 1..Len(df.rows) |->
                 [idx |-> df.rows[i].idx,
                  v |-> [c \in df.columns \cup {col} |->
                           IF c = col THEN values[i] ELSE df.rows[i].v[c]]]]]

\* SMA_50, SMA_200 and the moving average chart.
MovingAverage ==
    /\ pc = "moving_average"
    /\ LET close == Column(ns.company_data, "close")
           cd == WithColumn(WithColumn(ns.company_data, "SMA_50",
                                       rolling_mean(close, Window50)),
                            "SMA_200", rolling_mean(close, Window200))
       IN  /\ ns' = [ns EXCEPT !.company_data = cd]
           /\ rendered' = rendered \o
                << Subheader("Moving Averages"),
                   Chart("moving_avg_fig",
                         << Scatter("Close Price", Index(cd), Column(cd, "close")),
                            Scatter("50-day SMA", Index(cd), Column(cd, "SMA_50")),
                            Scatter("200-day SMA", Index(cd), Column(cd, "SMA_200")) >>) >>
    /\ Proceed("moving_average")
    /\ UNCHANGED <<session, seen, constructed>>

\* ------------------------------------------------------------ the session
Finished == pc \in {"done", "failed"}

\* What a finished run has produced, and the selections it ran under.
Outputs == [rendered |-> rendered, error |-> error]
Selections == <<ns.selected_company, ns.model_choice>>

\* The runtime re-executes the script from its first line in a fresh
\* namespace; the cache and the widgets' values are what it keeps.
StartRun ==
    /\ pc' = "load"
    /\ ns' = FreshNamespace
    /\ rendered' = <<>>
    /\ error' = NoError
    /\ steps' = <<>>
    /\ constructed' = <<>>
    /\ seen' = IF Selections \in DOMAIN seen THEN seen ELSE seen @@ (Selections :> Outputs)
    /\ UNCHANGED <<file, tie_order, cache, cached>>

\* The user picks another company in the dropdown the last run rendered.
ChangeCompany ==
    /\ Finished
    /\ \E i \in DOMAIN rendered :
         /\ rendered[i].kind = "selectbox"
         /\ \E c \in Range(rendered[i].options) :
              /\ c # rendered[i].value
              /\ widget_company' = c
    /\ UNCHANGED widget_model
    /\ StartRun

\* The user picks the other model in the radio control the last run rendered.
ChangeModel ==
    /\ Finished
    /\ \E i \in DOMAIN rendered :
         /\ rendered[i].kind = "radio"
         /\ \E m \in Range(rendered[i].options) :
              /\ m # rendered[i].value
              /\ widget_model' = m
    /\ UNCHANGED widget_company
    /\ StartRun

\* The user asks for a rerun with the widgets as they are.
Rerun ==
    /\ Finished
    /\ UNCHANGED <<widget_company, widget_model>>
    /\ StartRun

Next ==
    \/ Load \/ Filter \/ Title \/ SelectCompany \/ Prepare \/ Split \/ SelectModel
    \/ Fit \/ Score \/ DisplayMetrics \/ Forecast \/ DisplayForecast
    \/ Candlestick \/ ForecastPlot \/ SeasonalPlot \/ MetricsChart \/ MovingAverage
    \/ ChangeCompany \/ ChangeModel \/ Rerun

Spec == Init /\ [][Next]_vars

\* ------------------------------------------------------------ properties
\* The statement group has run through in this run.
StepDone(step) == step \in Range(steps) /\ error.step # step

\* The positions of frame's rows that belong to company c.
RowsOf(frame, c) == {i \in DOMAIN frame.rows : frame.rows[i].v["name"] = c}

\* C1: a company is offered in the dropdown exactly when it has at least
\* 180 rows in the loaded dataset; the filtered data holds exactly the rows
\* of those companies; the selected company's data has at least 180 rows.
C1_MinRowsFilter ==
    StepDone("filter") =>
        LET offered == Range(ns.valid_companies)
        IN  /\ \A c \in Companies : c \in offered <=> Cardinality(RowsOf(cache, c)) >= 180
            /\ \A i \in DOMAIN rendered :
                 rendered[i].kind = "selectbox" => Range(rendered[i].options) = offered
            /\ \A i \in DOMAIN ns.data.rows : ns.data.rows[i].v["name"] \in offered
            /\ \A c \in offered :
                 SelectSeq(ns.data.rows, LAMBDA r : r.v["name"] = c)
                   = SelectSeq(cache.rows, LAMBDA r : r.v["name"] = c)
            /\ StepDone("select_company") /\ ns.selected_company # None =>
                 /\ ns.selected_company \in offered
                 /\ Len(ns.company_data.rows) >= 180

C1_Witness ==
    /\ pc = "done"
    /\ ns.selected_company = "AAA"
    /\ Len(ns.company_data.rows) = 180
    /\ Cardinality(RowsOf(cache, "CCC")) = 179
    /\ "CCC" \notin Range(ns.valid_companies)

\* C2: the split is chronological 80/20: with n rows sorted by index the
\* test set is the last ceil(0.2 * n) rows and the training set the rest,
\* every training row precedes every test row, the sets are disjoint and
\* together they are all n rows in order.
C2_ChronologicalSplit ==
    StepDone("split") =>
        LET n == Len(ns.company_data.rows)
            t == Len(ns.X_test.rows)
            days(rows) == {rows[i].idx : i \in DOMAIN rows}
        IN  /\ 5 * t >= n /\ 5 * (t - 1) < n
            /\ Len(ns.X_train.rows) = n - t
            /\ Len(ns.y_train) = n - t /\ Len(ns.y_test) = t
            /\ \A i \in 1..(n - 1) : ns.company_data.rows[i].idx < ns.company_data.rows[i + 1].idx
            /\ \A i \in 1..n :
                 LET row == IF i <= n - t THEN ns.X_train.rows[i] ELSE ns.X_test.rows[i - (n - t)]
                     close == IF i <= n - t THEN ns.y_train[i] ELSE ns.y_test[i - (n - t)]
                 IN  /\ row.idx = ns.company_data.rows[i].idx
                     /\ \A c \in Range(features) : row.v[c] = ns.company_data.rows[i].v[c]
                     /\ close = ns.company_data.rows[i].v["close"]
            /\ \A a \in days(ns.X_train.rows), b \in days(ns.X_test.rows) : a < b
            /\ days(ns.X_train.rows) \cap days(ns.X_test.rows) = {}

C2_Witness ==
    /\ pc = "done"
    /\ Len(ns.company_data.rows) = 199
    /\ Len(ns.X_test.rows) = 40
    /\ Len(ns.X_train.rows) = 159

\* b never occurs in seq unless a occurs before it.
Precedes(seq, a, b) ==
    \A j \in DOMAIN seq : seq[j] = b => \E i \in 1..(j - 1) : seq[i] = a

\* Each consecutive pair of order is Precedes-ordered in seq, and no
\* member of order occurs twice.
InOrder(seq, order) ==
    /\ \A k \in 1..(Len(order) - 1) : Precedes(seq, order[k], order[k + 1])
    /\ \A i, j \in DOMAIN seq : seq[i] = seq[j] /\ seq[i] \in Range(order) => i = j

\* What an element of the page is: its figure for a chart, else its kind.
TagOf(e) == IF e.kind = "plotly_chart" THEN e.fig ELSE e.kind
Tags == [i \in DOMAIN rendered |-> TagOf(rendered[i])]

\* C3: every run executes load, filter, select company, split, select
\* model, fit, score, forecast, plot in that order, the model is fitted
\* before any metric or forecast is computed, and the page shows the
\* metrics, then the forecast table, then the candlestick, forecast,
\* seasonal, financial metrics and moving average charts.
C3_FixedOrder ==
    /\ InOrder(steps, <<"load", "filter", "select_company", "split", "select_model",
                        "fit", "score", "forecast", "candlestick", "forecast_plot",
                        "seasonal_plot", "metrics_chart", "moving_average">>)
    /\ InOrder(steps, <<"score", "display_metrics", "forecast", "display_forecast",
                        "candlestick">>)
    /\ (ns.y_pred # <<>> \/ ns.mae # NoFraction \/ ns.future_forecast # <<>>) => ns.model.fitted
    /\ \A i, j \in DOMAIN rendered :
         /\ Tags[i] = "metric" /\ Tags[j] = "dataframe" => i < j
         /\ Tags[i] = "metric" /\ rendered[j].kind = "plotly_chart" => i < j
         /\ Tags[i] = "dataframe" /\ rendered[j].kind = "plotly_chart" => i < j
    /\ InOrder(Tags, <<"dataframe", "candlestick_fig", "forecast_fig", "seasonal_fig",
                       "metrics_fig", "moving_avg_fig">>)
    /\ pc = "done" =>
         /\ Len(steps) = 17
         /\ Cardinality({i \in DOMAIN rendered : Tags[i] = "metric"}) = 4
         /\ "moving_avg_fig" \in Range(Tags)

C3_Witness ==
    /\ pc = "done"
    /\ Len(steps) = 17
    /\ Tags[Len(Tags)] = "moving_avg_fig"

\* C4: a run's outputs depend on the loaded dataset and the current
\* selections alone: no run modifies the cached dataset, every run starts
\* from the first statement with nothing bound and, when it ends without
\* an exception, has executed every statement group, and a finished run
\* has the outputs of the first finished run under the same selections,
\* whatever ran in between.
C4_RunsIndependent ==
    /\ cached => cache = read_parquet(file)
    /\ pc = "load" => ns = FreshNamespace /\ rendered = <<>> /\ steps = <<>>
    /\ pc = "done" => steps = ScriptOrder
    /\ Finished /\ Selections \in DOMAIN seen => seen[Selections] = Outputs

C4_Witness ==
    /\ pc = "done"
    /\ Selections \in DOMAIN seen
    /\ Cardinality(DOMAIN seen) >= 3
    /\ seen[Selections] = Outputs

\* C5: nothing is caught.  A file that lacks a required column ends every
\* run with a KeyError at the statement that reads the column, a file in
\* which no company reaches 180 rows ends every run with a ValueError at
\* the split, and a run that ended so shows no metric, table or chart.
C5_ErrorsEndTheRun ==
    LET missing == AllColumns \ file.columns
        selectable == \E k \in DOMAIN file.sizes : file.sizes[k][2] >= 180
        early == {"load", "filter", "title", "select_company", "prepare"}
        outputs == {i \in DOMAIN rendered : rendered[i].kind \in {"metric", "dataframe", "plotly_chart"}}
    IN  /\ missing # {} =>
              /\ pc \in early \cup {"failed"}
              /\ outputs = {}
              /\ pc = "failed" =>
                   error = [step |-> IF "name" \in missing THEN "filter" ELSE "prepare",
                            type |-> "KeyError"]
        /\ missing = {} /\ ~selectable =>
              /\ pc \in early \cup {"split", "failed"}
              /\ outputs = {}
              /\ pc = "failed" => error = [step |-> "split", type |-> "ValueError"]
        /\ pc = "failed" =>
              /\ error.type # None
              /\ Len(steps) = Position(error.step)
              /\ error.step \in {"filter", "prepare", "split"} => outputs = {}
        /\ pc # "failed" => error = NoError

C5_Witness ==
    /\ pc = "failed"
    /\ "Williams_%R" \notin file.columns
    /\ error = [step |-> "prepare", type |-> "KeyError"]
    /\ Tags = <<"title", "selectbox">>

\* C6: every run constructs exactly one regressor: Extra Trees exactly
\* when the radio control says "Extra Trees", Random Forest exactly when it
\* says "Random Forest"; the control holds one of the two ("Extra Trees"
\* when untouched), so fit never finds model unbound.
C6_OneModel ==
    /\ ~StepDone("select_model") => constructed = <<>>
    /\ StepDone("select_model") =>
         /\ ns.model_choice \in {"Extra Trees", "Random Forest"}
         /\ widget_model = None => ns.model_choice = "Extra Trees"
         /\ Len(constructed) = 1
         /\ constructed[1] = ns.model.kind
         /\ ns.model.kind = "ExtraTreesRegressor" <=> ns.model_choice = "Extra Trees"
         /\ ns.model.kind = "RandomForestRegressor" <=> ns.model_choice = "Random Forest"
    /\ error.type # "NameError"
    /\ StepDone("fit") => ns.model.fitted /\ ns.model.kind # Unbound

C6_Witness ==
    /\ pc = "done"
    /\ ns.model_choice = "Random Forest"
    /\ constructed = <<"RandomForestRegressor">>
    /\ ns.model.fitted

\* C7: the forecast's inputs are exactly the last 15 rows of the test
\* features, so the forecast of Day k is the test prediction of the k-th
\* of the last 15 test rows rounded to 2 decimals (the nearest hundredth,
\* a tie to the even one).
C7_ForecastIsTestTail ==
    StepDone("forecast") =>
        LET t == Len(ns.X_test.rows)
        IN  /\ Len(ns.future_X.rows) = 15
            /\ Len(ns.future_forecast) = 15
            /\ \A k \in 1..15 :
                 LET p == ns.y_pred[t - 15 + k]
                     f == ns.future_forecast[k]
                 IN  /\ ns.future_X.rows[k] = ns.X_test.rows[t - 15 + k]
                     /\ f % 10 = 0
                     /\ 2 * Abs(f - p) <= 10
                     /\ 2 * Abs(f - p) = 10 => (f \div 10) % 2 = 0
            /\ StepDone("display_forecast") =>
                 \A k \in 1..15 :
                    /\ ns.forecast_df[k].Day = k
                    /\ ns.forecast_df[k].Forecasted_Close = ns.future_forecast[k]

C7_Witness ==
    /\ pc = "done"
    /\ \E k \in 1..15 :
         /\ ns.future_forecast[k] # ns.y_pred[Len(ns.y_pred) - 15 + k]
         /\ ns.future_forecast[k] # ns.future_forecast[1]

\* C8: for every selectable company the row counts suffice: the test set
\* has at least 36 rows, the forecast input exactly 15, the forecast table
\* is built from two columns of 15 and does not fail, and the company has
\* at least 60 rows, so the seasonal decomposition does not fail.
C8_RowCountsSuffice ==
    /\ StepDone("split") /\ ns.selected_company \in Range(ns.valid_companies) =>
         /\ Len(ns.X_test.rows) >= 36
         /\ Len(ns.company_data.rows) >= 60
    /\ StepDone("forecast") => Len(ns.future_X.rows) = 15 /\ Len(ns.future_forecast) = 15
    /\ StepDone("display_forecast") =>
         /\ Len(ns.forecast_df) = 15
         /\ \A i \in DOMAIN rendered :
              rendered[i].kind = "dataframe" => Len(rendered[i].rows) = 15
    /\ error.step \notin {"display_forecast", "seasonal_plot"}
    /\ StepDone("seasonal_plot") => Len(ns.decompose_result.trend) = Len(ns.company_data.rows)

C8_Witness ==
    /\ pc = "done"
    /\ Len(ns.company_data.rows) = 180
    /\ Len(ns.X_test.rows) = 36
    /\ Len(ns.forecast_df) = 15
    /\ "seasonal_fig" \in Range(Tags)

\* C9: in the forecast chart every trace has as many x values as y
\* values; the "Forecasted Close Price" trace pairs its 16 y values with
\* 16 x values, the last data date and the 15 days after it.
C9_TraceLengthsAgree ==
    \A i \in DOMAIN rendered :
        rendered[i].kind = "plotly_chart" /\ rendered[i].fig = "forecast_fig" =>
            \A k \in DOMAIN rendered[i].traces :
                LET trace == rendered[i].traces[k]
                    last == ns.company_data.rows[Len(ns.company_data.rows)].idx
                IN  /\ Len(trace.x) = Len(trace.y)
                    /\ trace.name = "Forecasted Close Price" =>
                         /\ Len(trace.y) = 16
                         /\ trace.x = [d \in 1..16 |-> last + d - 1]

\* C10: the 50-day SMA has a value at row i exactly when i >= 50 and the
\* 200-day SMA exactly when i >= 200, the value being the mean of the
\* closes of the last 50 (200) rows up to row i; a company of 180 to 199
\* rows has no 200-day SMA value; the 50-day SMA has at least 131 values.
C10_MovingAverages ==
    StepDone("moving_average") =>
        LET rows == ns.company_data.rows
            n == Len(rows)
            close == [i \in 1..n |-> rows[i].v["close"]]
            MeanAt(i, w) == [num |-> SumRange(close, i - w + 1, i), den |-> w]
            chart == rendered[Len(rendered)]
        IN  /\ \A i \in 1..n :
                 /\ rows[i].v["SMA_50"] # NaNMean <=> i >= 50
                 /\ i >= 50 => rows[i].v["SMA_50"] = MeanAt(i, 50)
                 /\ rows[i].v["SMA_200"] # NaNMean <=> i >= 200
                 /\ i >= 200 => rows[i].v["SMA_200"] = MeanAt(i, 200)
            /\ n \in 180..199 => \A i \in 1..n : rows[i].v["SMA_200"] = NaNMean
            /\ Cardinality({i \in 1..n : rows[i].v["SMA_50"] # NaNMean}) >= 131
            /\ chart.fig = "moving_avg_fig"
            /\ chart.traces[2].y = [i \in 1..n |-> rows[i].v["SMA_50"]]
            /\ chart.traces[3].y = [i \in 1..n |-> rows[i].v["SMA_200"]]

C10_Witness ==
    /\ pc = "done"
    /\ Len(ns.company_data.rows) = 199
    /\ ns.company_data.rows[50].v["SMA_50"] # NaNMean
    /\ ns.company_data.rows[49].v["SMA_50"] = NaNMean
    /\ \A i \in 1..199 : ns.company_data.rows[i].v["SMA_200"] = NaNMean
====
